---- MODULE Spec2Model ----
(***************************************************************************)
(* Model of colaboradores-api: the CSV normalisation of                    *)
(* app/services.py (read_csv type inference, dropna, forward fill, per-row *)
(* coercion), the join combine_colaboradores_data, and the three routes of *)
(* app/routes.py.                                                          *)
(*                                                                         *)
(* Text is a sequence of one-character strings.  A cell value, as pandas   *)
(* holds it, is a record [kind, m, e, s]:                                  *)
(*   kind = "nan"    blank cell (NaN)                                      *)
(*   kind = "int"    Python/numpy integer m                                *)
(*   kind = "float"  the decimal m / 10^e, normalised (no trailing zero)   *)
(*   kind = "inf"    float infinity                                        *)
(*   kind = "str"    the text s                                            *)
(*   kind = "none"   Python None                                           *)
(***************************************************************************)
EXTENDS Integers, Sequences, FiniteSets, TLC

\* ------------------------------------------------------------------------
\* Text and numbers
\* ------------------------------------------------------------------------

Digits == <<"0", "1", "2", "3", "4", "5", "6", "7", "8", "9">>

IsDigit(c) == \E i \in 1..Len(Digits) : Digits[i] = c

DigitOf(c) == (CHOOSE i \in 1..Len(Digits) : Digits[i] = c) - 1

RECURSIVE NatStr(_)
NatStr(n) ==
    IF n < Len(Digits) THEN <<Digits[n + 1]>>
    ELSE NatStr(n \div Len(Digits)) \o <<Digits[(n % Len(Digits)) + 1]>>

\* str(n) for a Python int
IntStr(n) == IF n < 0 THEN <<"-">> \o NatStr(0 - n) ELSE NatStr(n)

RECURSIVE Pow10(_)
Pow10(e) == IF e = 0 THEN 1 ELSE Len(Digits) * Pow10(e - 1)

RECURSIVE DigitsVal(_)
DigitsVal(s) ==
    IF s = <<>> THEN 0
    ELSE DigitsVal(SubSeq(s, 1, Len(s) - 1)) * Len(Digits) + DigitOf(s[Len(s)])

AllDigits(s) == \A i \in 1..Len(s) : IsDigit(s[i])

\* str.replace(old, new) for a one-character old; new is a text (maybe empty)
RECURSIVE Replace(_, _, _)
Replace(s, old, new) ==
    IF s = <<>> THEN <<>>
    ELSE (IF s[1] = old THEN new ELSE <<s[1]>>) \o Replace(Tail(s), old, new)

Unsigned(s) == IF s # <<>> /\ s[1] = "-" THEN Tail(s) ELSE s

IsNeg(s) == s # <<>> /\ s[1] = "-"

DotPositions(s) == {i \in 1..Len(s) : s[i] = "."}

IntPart(s) ==
    IF DotPositions(s) = {} THEN s
    ELSE SubSeq(s, 1, (CHOOSE i \in DotPositions(s) : TRUE) - 1)

FracPart(s) ==
    IF DotPositions(s) = {} THEN <<>>
    ELSE SubSeq(s, (CHOOSE i \in DotPositions(s) : TRUE) + 1, Len(s))

\* an integer literal: optional '-', then one or more digits
IsIntLit(s) == Unsigned(s) # <<>> /\ AllDigits(Unsigned(s))

\* a decimal literal: optional '-', digits, at most one '.', at least one digit
IsDecimalLit(s) ==
    LET u == Unsigned(s) IN
    /\ Cardinality(DotPositions(u)) <= 1
    /\ AllDigits(IntPart(u)) /\ AllDigits(FracPart(u))
    /\ Len(IntPart(u)) + Len(FracPart(u)) > 0

IsInfLit(s) == Unsigned(s) = <<"i", "n", "f">>

\* ---- values ----
Val(kind, m, e, s) == [kind |-> kind, m |-> m, e |-> e, s |-> s]

NaN == Val("nan", 0, 0, <<>>)

None == Val("none", 0, 0, <<>>)

IntV(m) == Val("int", m, 0, <<>>)

StrV(s) == Val("str", 0, 0, s)

InfV(neg) == Val("inf", IF neg THEN 0 - 1 ELSE 1, 0, <<>>)

RECURSIVE Normalise(_, _)
Normalise(m, e) ==
    IF e > 0 /\ m % Len(Digits) = 0 THEN Normalise(m \div Len(Digits), e - 1)
    ELSE Val("float", m, e, <<>>)

FloatV(m, e) == Normalise(m, e)

\* the float a decimal literal denotes
DecimalValue(s) ==
    LET u   == Unsigned(s)
        mag == DigitsVal(IntPart(u) \o FracPart(u))
    IN  FloatV(IF IsNeg(s) THEN 0 - mag ELSE mag, Len(FracPart(u)))

\* float(text): "ok" with the value, or "ValueError"
PyFloat(s) ==
    IF IsInfLit(s) THEN [exc |-> "ok", v |-> InfV(IsNeg(s))]
    ELSE IF IsDecimalLit(s) THEN [exc |-> "ok", v |-> DecimalValue(s)]
    ELSE [exc |-> "ValueError", v |-> None]

RECURSIVE PadLeft(_, _)
PadLeft(s, n) == IF Len(s) >= n THEN s ELSE PadLeft(<<"0">> \o s, n)

\* str(x) for a float: shortest repr, always with a fractional part
FloatStr(v) ==
    IF v.kind = "inf" THEN (IF v.m < 0 THEN <<"-">> ELSE <<>>) \o <<"i", "n", "f">>
    ELSE
      LET mag  == IF v.m < 0 THEN 0 - v.m ELSE v.m
          sign == IF v.m < 0 THEN <<"-">> ELSE <<>>
      IN  IF v.e = 0 THEN sign \o NatStr(mag) \o <<".", "0">>
          ELSE sign \o NatStr(mag \div Pow10(v.e)) \o <<".">>
                    \o PadLeft(NatStr(mag % Pow10(v.e)), v.e)

\* str(x) of a non-missing cell value
PyStr(v) ==
    CASE v.kind = "int"   -> IntStr(v.m)
      [] v.kind = "float" -> FloatStr(v)
      [] v.kind = "inf"   -> FloatStr(v)
      [] v.kind = "str"   -> v.s
      [] OTHER            -> <<"N", "o", "n", "e">>

\* int(x): "ok" with the integer, "ValueError" or "OverflowError"
PyInt(v) ==
    CASE v.kind = "int"   -> [exc |-> "ok", n |-> v.m]
      [] v.kind = "float" ->
            [exc |-> "ok",
             n |-> IF v.m < 0 THEN 0 - ((0 - v.m) \div Pow10(v.e))
                   ELSE v.m \div Pow10(v.e)]
      [] v.kind = "inf"   -> [exc |-> "OverflowError", n |-> 0]
      [] v.kind = "str"   ->
            IF IsIntLit(v.s)
            THEN [exc |-> "ok",
                  n |-> IF IsNeg(v.s) THEN 0 - DigitsVal(Unsigned(v.s))
                        ELSE DigitsVal(Unsigned(v.s))]
            ELSE [exc |-> "ValueError", n |-> 0]
      [] OTHER            -> [exc |-> "TypeError", n |-> 0]

\* pd.notna(x)
NotNa(v) == v.kind \notin {"nan", "none"}

\* ------------------------------------------------------------------------
\* The external source: what requests.get(sheet_url) answers.
\*   status "http_error": RequestException (connection, non-2xx, bad URL)
\*   status "empty"     : nothing left after the 4 skipped lines
\*   status "ok"        : a header naming the columns cols, then the data
\*                        rows; a row holds the text of its cells under the
\*                        headers 'Código', 'Cargo', 'Salário'
\* ------------------------------------------------------------------------

SheetCols == {"matricula", "cargo_contabil", "salario"}

Cell(row, col) ==
    CASE col = "matricula"      -> row.codigo
      [] col = "cargo_contabil" -> row.cargo
      [] col = "salario"        -> row.salario

\* pandas' type inference for one column of a parsed CSV
ColumnDtype(cells) ==
    IF cells = <<>> THEN "object"
    ELSE IF \A i \in 1..Len(cells) : IsIntLit(cells[i]) THEN "int64"
    ELSE IF \A i \in 1..Len(cells) :
               cells[i] = <<>> \/ IsDecimalLit(cells[i]) \/ IsInfLit(cells[i])
         THEN "float64"
    ELSE "object"

\* the value pandas stores for a cell of a column of the given dtype
ReadCell(dtype, s) ==
    CASE dtype = "int64" ->
            IntV(IF IsNeg(s) THEN 0 - DigitsVal(Unsigned(s)) ELSE DigitsVal(s))
      [] dtype = "float64" ->
            IF s = <<>> THEN NaN
            ELSE IF IsInfLit(s) THEN InfV(IsNeg(s))
            ELSE DecimalValue(s)
      [] OTHER -> IF s = <<>> THEN NaN ELSE StrV(s)

\* pd.read_csv(..., skiprows=4) followed by df.rename: the frame, one record
\* per data row; idx is the row's position in the file (the frame's index).
\* Each column gets its own dtype.  The sheet also has text columns ('Nome',
\* 'Nº do C.P.F.'), so df.iterrows() yields rows of dtype object and a cell
\* reaches the row loop with the type of its column.
read_csv(rows) ==
    LET column(col) == [i \in 1..Len(rows) |-> Cell(rows[i], col)]
        dtype(col)  == ColumnDtype(column(col))
    IN  [i \in 1..Len(rows) |->
            [idx            |-> i,
             matricula      |-> ReadCell(dtype("matricula"), rows[i].codigo),
             cargo_contabil |-> ReadCell(dtype("cargo_contabil"), rows[i].cargo),
             salario        |-> ReadCell(dtype("salario"), rows[i].salario)]]

HasMatricula(r) == NotNa(r.matricula)

\* mutant: the rows without identifier are kept
dropna_KeepsAll(frame) == frame

\* df.dropna(subset=['matricula'])
dropna(frame) == SelectSeq(frame, HasMatricula)

\* the last valid value of column col at or before position i
RECURSIVE LastValid(_, _, _)
LastValid(frame, col, i) ==
    IF NotNa(frame[i][col]) THEN frame[i][col]
    ELSE IF i = 1 THEN NaN
    ELSE LastValid(frame, col, i - 1)

\* mutant: the fill is left out
ffill_NoFill(frame, col) == frame

\* df[col] = df[col].fillna(method='ffill')
ffill(frame, col) ==
    [i \in 1..Len(frame) |-> [frame[i] EXCEPT ![col] = LastValid(frame, col, i)]]

\* the loop over ['matricula', 'cargo_contabil', 'salario'], skipping a
\* column the frame does not have
FillMerged(frame, cols) ==
    LET f1 == IF "matricula" \in cols THEN ffill(frame, "matricula") ELSE frame
        f2 == IF "cargo_contabil" \in cols THEN ffill(f1, "cargo_contabil") ELSE f1
    IN  IF "salario" \in cols THEN ffill(f2, "salario") ELSE f2

\* the frame the row loop iterates over
CleanFrame(src) == FillMerged(dropna(read_csv(src.rows)), src.cols)

\* str(int(row['matricula'])) if pd.notna(row['matricula']) else None
MatriculaVal(r) ==
    IF ~NotNa(r.matricula) THEN [exc |-> "ok", v |-> None]
    ELSE LET n == PyInt(r.matricula)
         IN  IF n.exc = "ok" THEN [exc |-> "ok", v |-> StrV(IntStr(n.n))]
             ELSE [exc |-> n.exc, v |-> None]

\* mutant: a blank salary becomes zero
SalarioVal_BlankIsZero(r) ==
    IF ~NotNa(r.salario) THEN [exc |-> "ok", v |-> FloatV(0, 0)]
    ELSE PyFloat(Replace(Replace(PyStr(r.salario), ".", <<>>), ",", <<".">>))

\* float(str(row['salario']).replace('.', '').replace(',', '.'))
\*   if pd.notna(row['salario']) else None
SalarioVal(r) ==
    IF ~NotNa(r.salario) THEN [exc |-> "ok", v |-> None]
    ELSE PyFloat(Replace(Replace(PyStr(r.salario), ".", <<>>), ",", <<".">>))

\* str(row['cargo_contabil']) if pd.notna(row['cargo_contabil']) else None
CargoVal(r) ==
    IF NotNa(r.cargo_contabil) THEN StrV(PyStr(r.cargo_contabil)) ELSE None

ColaboradorSheet(matricula, cargo_contabil, salario, admissao) ==
    [matricula |-> matricula, cargo_contabil |-> cargo_contabil,
     salario |-> salario, admissao |-> admissao]

\* one pass of the try block for a row: "append" (a record is appended),
\* "continue" (KeyError or ValueError caught, or a falsy matricula) or
\* "raise" (an exception the loop does not catch)
RowOutcome(r, cols) ==
    LET mat == MatriculaVal(r)
        sal == SalarioVal(r)
    IN  IF mat.exc = "ValueError" THEN "continue"
        ELSE IF mat.exc # "ok" THEN "raise"
        ELSE IF "salario" \notin cols THEN "continue"
        ELSE IF sal.exc = "ValueError" THEN "continue"
        ELSE IF sal.exc # "ok" THEN "raise"
        ELSE IF mat.v = None \/ mat.v.s = <<>> THEN "continue"
        ELSE IF "cargo_contabil" \notin cols THEN "continue"
        ELSE "append"

RowRecord(r) ==
    ColaboradorSheet(MatriculaVal(r).v.s, CargoVal(r), SalarioVal(r).v, None)

\* the rows of the clean frame that end up in the returned list; empty when
\* an exception leaves the function through one of the outer handlers
KeptRows(src) ==
    IF src.status # "ok" THEN <<>>
    ELSE IF "matricula" \notin src.cols THEN <<>>
    ELSE LET frame == CleanFrame(src)
             IsAppended(r) == RowOutcome(r, src.cols) = "append"
         IN  IF \E i \in 1..Len(frame) : RowOutcome(frame[i], src.cols) = "raise"
             THEN <<>>
             ELSE SelectSeq(frame, IsAppended)

get_colaboradores_from_google_sheets_csv(src) ==
    LET kept == KeptRows(src)
    IN  [k \in 1..Len(kept) |-> RowRecord(kept[k])]

\* ------------------------------------------------------------------------
\* The authoritative source: what the database answers.
\*   status "conn_error" : psycopg.connect fails, get_db_connection is None
\*   status "query_error": the query raises psycopg.Error
\*   status "ok"         : fetchall() gives rows, tuples
\*                         <<codigo, nome, cpf, genero>>
\* ------------------------------------------------------------------------

ColaboradorDB(codigo, nome, cpf, genero) ==
    [codigo |-> codigo, nome |-> nome, cpf |-> cpf, genero |-> genero]

get_colaboradores_from_db(src) ==
    IF src.status # "ok" THEN <<>>
    ELSE [i \in 1..Len(src.rows) |->
            ColaboradorDB(src.rows[i][1], src.rows[i][2], src.rows[i][3],
                          src.rows[i][4])]

\* ------------------------------------------------------------------------
\* The join
\* ------------------------------------------------------------------------

ColaboradorCompleto(codigo, nome, cpf, genero, cargo_contabil, salario, admissao) ==
    [codigo |-> codigo, nome |-> nome, cpf |-> cpf, genero |-> genero,
     cargo_contabil |-> cargo_contabil, salario |-> salario,
     admissao |-> admissao]

Last(S) == CHOOSE i \in S : \A j \in S : j <= i

First(S) == CHOOSE i \in S : \A j \in S : i <= j

\* mutant: the first record with a key is kept
sheet_data_map_FirstWins(sheet_data) ==
    [k \in {sheet_data[i].matricula : i \in 1..Len(sheet_data)} |->
        sheet_data[First({i \in 1..Len(sheet_data) : sheet_data[i].matricula = k})]]

\* {col.matricula: col for col in sheet_data}: a later record replaces an
\* earlier one with the same key
sheet_data_map(sheet_data) ==
    [k \in {sheet_data[i].matricula : i \in 1..Len(sheet_data)} |->
        sheet_data[Last({i \in 1..Len(sheet_data) : sheet_data[i].matricula = k})]]

CombineOne(db_colaborador, map) ==
    LET key == IntStr(db_colaborador.codigo)
    IN  IF key \in DOMAIN map
        THEN ColaboradorCompleto(db_colaborador.codigo, db_colaborador.nome,
                                 db_colaborador.cpf, db_colaborador.genero,
                                 map[key].cargo_contabil, map[key].salario,
                                 map[key].admissao)
        ELSE ColaboradorCompleto(db_colaborador.codigo, db_colaborador.nome,
                                 db_colaborador.cpf, db_colaborador.genero,
                                 None, None, None)

IsMatched(db_colaborador, map) == IntStr(db_colaborador.codigo) \in DOMAIN map

\* mutant: an inner join, the unmatched records are left out
combine_InnerJoin(db, sheet) ==
    LET map == sheet_data_map(sheet)
        Matched(d) == IsMatched(d, map)
        kept == SelectSeq(db, Matched)
    IN  [i \in 1..Len(kept) |-> CombineOne(kept[i], map)]

combine_colaboradores_data(db, sheet) ==
    [i \in 1..Len(db) |-> CombineOne(db[i], sheet_data_map(sheet))]

\* ------------------------------------------------------------------------
\* State
\* ------------------------------------------------------------------------

VARIABLES
    db_source,      \* what the database answers during this invocation
    sheet_source,   \* what the sheet URL answers during this invocation
    sheet_url,      \* the query parameter of the request
    route,          \* the operation invoked
    pc,             \* position of the handler
    db_data,        \* local of the handler
    sheet_data,     \* local of the handler
    df,             \* the cleaned frame inside the last sheet fetch
    combined_data,  \* local of the handler
    response,       \* what the handler answered
    trace           \* the pipeline steps executed so far, in order

vars == <<db_source, sheet_source, sheet_url, route, pc, db_data, sheet_data,
          df, combined_data, response, trace>>

env == <<db_source, sheet_source, sheet_url, route>>

Pending == [code |-> 0, body |-> <<>>]

Ok(body) == [code |-> 200, body |-> body]

HTTPException(code) == [code |-> code, body |-> <<>>]

\* mutant: an empty list is returned as it is
PerSourceResponse_EmptyOk(colaboradores) == Ok(colaboradores)

\* if not colaboradores: raise HTTPException(status_code=500, ...)
\* return colaboradores
\* (the HTTPException raised inside the try block is caught by the handler's
\* own except clause and raised again as another HTTPException 500)
PerSourceResponse(colaboradores) ==
    IF colaboradores = <<>> THEN HTTPException(500) ELSE Ok(colaboradores)

\* the frame df the sheet function iterates over (empty when it never gets
\* that far)
FrameOf(src) ==
    IF src.status = "ok" /\ "matricula" \in src.cols THEN CleanFrame(src)
    ELSE <<>>

\* ---- GET /colaboradores/banco ----
read_colaboradores_from_db ==
    /\ route = "banco" /\ pc = "start"
    /\ LET colaboradores == get_colaboradores_from_db(db_source)
       IN  /\ db_data' = colaboradores
           /\ response' = PerSourceResponse(colaboradores)
    /\ pc' = "done"
    /\ UNCHANGED <<env, sheet_data, df, combined_data, trace>>

\* ---- GET /colaboradores/sheets ----
read_colaboradores_from_sheets ==
    /\ route = "sheets" /\ pc = "start"
    /\ IF sheet_url = <<>>
       THEN /\ response' = HTTPException(400)
            /\ UNCHANGED <<sheet_data, df>>
       ELSE LET colaboradores == get_colaboradores_from_google_sheets_csv(sheet_source)
            IN  /\ sheet_data' = colaboradores
                /\ df' = FrameOf(sheet_source)
                /\ response' = PerSourceResponse(colaboradores)
    /\ pc' = "done"
    /\ UNCHANGED <<env, db_data, combined_data, trace>>

\* ---- GET /colaboradores/completo, step by step ----
CheckUrl ==
    /\ route = "completo" /\ pc = "start"
    /\ IF sheet_url = <<>>
       THEN response' = HTTPException(400) /\ pc' = "done"
       ELSE response' = response /\ pc' = "fetch_db"
    /\ UNCHANGED <<env, db_data, sheet_data, df, combined_data, trace>>

\* mutant: the handler goes on after an empty authoritative fetch
FetchDb_NoCheck ==
    /\ route = "completo" /\ pc = "fetch_db"
    /\ db_data' = get_colaboradores_from_db(db_source)
    /\ trace' = Append(trace, "fetch_db")
    /\ response' = response /\ pc' = "fetch_sheet"
    /\ UNCHANGED <<env, sheet_data, df, combined_data>>

FetchDb ==
    /\ route = "completo" /\ pc = "fetch_db"
    /\ db_data' = get_colaboradores_from_db(db_source)
    /\ trace' = Append(trace, "fetch_db")
    /\ IF db_data' = <<>>
       THEN response' = HTTPException(500) /\ pc' = "done"
       ELSE response' = response /\ pc' = "fetch_sheet"
    /\ UNCHANGED <<env, sheet_data, df, combined_data>>

\* mutant: the handler joins also when the sheet gave nothing
FetchSheet_NoCheck ==
    /\ route = "completo" /\ pc = "fetch_sheet"
    /\ sheet_data' = get_colaboradores_from_google_sheets_csv(sheet_source)
    /\ df' = FrameOf(sheet_source)
    /\ trace' = Append(trace, "fetch_sheet")
    /\ response' = response /\ pc' = "join"
    /\ UNCHANGED <<env, db_data, combined_data>>

FetchSheet ==
    /\ route = "completo" /\ pc = "fetch_sheet"
    /\ sheet_data' = get_colaboradores_from_google_sheets_csv(sheet_source)
    /\ df' = FrameOf(sheet_source)
    /\ trace' = Append(trace, "fetch_sheet")
    /\ IF sheet_data' = <<>>
       THEN response' = HTTPException(500) /\ pc' = "done"
       ELSE response' = response /\ pc' = "join"
    /\ UNCHANGED <<env, db_data, combined_data>>

Join ==
    /\ route = "completo" /\ pc = "join"
    /\ combined_data' = combine_colaboradores_data(db_data, sheet_data)
    /\ trace' = Append(trace, "join")
    /\ response' = Ok(combined_data')
    /\ pc' = "done"
    /\ UNCHANGED <<env, db_data, sheet_data, df>>

\* ---- combine_colaboradores_data called on its own ----
CallCombine ==
    /\ route = "combine" /\ pc = "start"
    /\ combined_data' = combine_colaboradores_data(db_data, sheet_data)
    /\ pc' = "done"
    /\ UNCHANGED <<env, db_data, sheet_data, df, response, trace>>

\* ------------------------------------------------------------------------
\* Inputs
\* ------------------------------------------------------------------------

MaxRows == 3

MaxDb == 2

MaxSheet == 2

SeqsUpTo(S, n) == UNION {[1..k -> S] : k \in 0..n}

Row(codigo, cargo, salario) ==
    [codigo |-> codigo, cargo |-> cargo, salario |-> salario]

Blank == <<>>

T1500 == <<"1", "5", "0", "0">>

T1234c56 == <<"1", ".", "2", "3", "4", ",", "5", "6">>

T500c00 == <<"5", "0", "0", ",", "0", "0">>

Tm1c5 == <<"-", "1", ",", "5">>

Tabc == <<"a", "b", "c">>

T2p7 == <<"2", ".", "7">>

Tinf == <<"i", "n", "f">>

\* rows with merged (blank) cells in every column
MergedRows ==
    {Row(c, g, s) : c \in {Blank, <<"1">>},
                    g \in {Blank, <<"A">>, <<"B">>},
                    s \in {Blank, T1500}}

\* rows with the number formats the coercion meets
FormatRows ==
    {Row(c, <<"A">>, s) : c \in {<<"1">>, <<"x">>},
                          s \in {Blank, T1500, T1234c56, T500c00, Tm1c5, Tabc}}
      \cup {Row(c, <<"A">>, s) : c \in {T2p7, Tinf}, s \in {Blank, T1500}}

SheetOk(cols, rows) == [status |-> "ok", cols |-> cols, rows |-> rows]

SheetFailure(status) == [status |-> status, cols |-> {}, rows |-> <<>>]

Url == <<"u">>

DbOk(rows) == [status |-> "ok", rows |-> rows]

DbFailure(status) == [status |-> status, rows |-> <<>>]

NoLocals ==
    /\ db_data = <<>> /\ sheet_data = <<>> /\ df = <<>>
    /\ combined_data = <<>> /\ response = Pending /\ trace = <<>>

\* ---- the sheet function on its own, over whole tables ----
InitSheets ==
    /\ route = "sheets" /\ pc = "start" /\ sheet_url = Url
    /\ db_source = DbFailure("conn_error")
    /\ sheet_source \in
          {SheetOk(SheetCols, rows) :
              rows \in SeqsUpTo(MergedRows, MaxRows) \cup SeqsUpTo(FormatRows, MaxRows)}
    /\ NoLocals

NextSheets == read_colaboradores_from_sheets

SpecSheets == InitSheets /\ [][NextSheets]_vars

\* ---- the join on its own, over arbitrary lists ----
DbRecords ==
    {ColaboradorDB(c, n, "111", "F") : c \in {1, 10}, n \in {"Ana", "Bia"}}

SheetRecords ==
    {ColaboradorSheet(m, g, s, None) :
        m \in {<<"1">>, <<"1", "0">>, <<"0", "1">>},
        g \in {None, StrV(<<"A">>)},
        s \in {None, FloatV(1500, 0)}}

InitJoin ==
    /\ route = "combine" /\ pc = "start" /\ sheet_url = Url
    /\ db_source = DbFailure("conn_error")
    /\ sheet_source = SheetFailure("http_error")
    /\ db_data \in SeqsUpTo(DbRecords, MaxDb)
    /\ sheet_data \in SeqsUpTo(SheetRecords, MaxSheet)
    /\ df = <<>> /\ combined_data = <<>> /\ response = Pending /\ trace = <<>>

NextJoin == CallCombine

SpecJoin == InitJoin /\ [][NextJoin]_vars

\* ---- the three routes ----
DbRows == {<<1, "Ana", "111", "F">>, <<10, "Bia", "222", "M">>}

RouteRows ==
    {Row(<<"1">>, <<"A">>, T1500), Row(<<"1", "0">>, <<"B">>, T1234c56),
     Row(Blank, Blank, Blank), Row(<<"x">>, <<"A">>, Tabc),
     Row(<<"1">>, Blank, Tm1c5)}

DbSources ==
    {DbFailure("conn_error"), DbFailure("query_error")}
      \cup {DbOk(rows) : rows \in SeqsUpTo(DbRows, MaxDb)}

SheetSources ==
    {SheetFailure("http_error"), SheetFailure("empty")}
      \cup {SheetOk(SheetCols, rows) : rows \in SeqsUpTo(RouteRows, MaxRows)}
      \cup {SheetOk(SheetCols \ {c}, <<r>>) : c \in SheetCols, r \in RouteRows}

Init ==
    /\ route \in {"banco", "sheets", "completo"} /\ pc = "start"
    /\ sheet_url \in {<<>>, Url}
    /\ db_source \in DbSources
    /\ sheet_source \in SheetSources
    /\ NoLocals

Next ==
    \/ read_colaboradores_from_db
    \/ read_colaboradores_from_sheets
    \/ CheckUrl
    \/ FetchDb
    \/ FetchSheet
    \/ Join

Spec == Init /\ [][Next]_vars

\* ------------------------------------------------------------------------
\* Properties
\* ------------------------------------------------------------------------

Done == pc = "done"

SheetParsed == Done /\ route = "sheets" /\ sheet_source.status = "ok"

Rows == sheet_source.rows

ColumnOf(col) == [i \in 1..Len(Rows) |-> Cell(Rows[i], col)]

\* the value a text has once stored in column col of the parsed sheet
AsStored(col, text) == ReadCell(ColumnDtype(ColumnOf(col)), text)

Greatest(S) == CHOOSE i \in S : \A j \in S : j <= i

\* rows at or before i with a non-blank cell in column col
FilledUpTo(col, i) == {j \in 1..i : Cell(Rows[j], col) # Blank}

\* the same, among the rows that have an identifier
RetainedFilledUpTo(col, i) ==
    {j \in FilledUpTo(col, i) : Rows[j].codigo # Blank}

NearestOfAll(col, i) ==
    IF FilledUpTo(col, i) = {} THEN Blank
    ELSE Cell(Rows[Greatest(FilledUpTo(col, i))], col)

NearestRetained(col, i) ==
    IF RetainedFilledUpTo(col, i) = {} THEN Blank
    ELSE Cell(Rows[Greatest(RetainedFilledUpTo(col, i))], col)

\* the file rows the returned records were made from, in order
SourceRows ==
    LET kept == KeptRows(sheet_source)
    IN  [k \in 1..Len(kept) |-> kept[k].idx]

LocaleToDecimal(t) == Replace(Replace(t, ".", <<>>), ",", <<".">>)

\* digits, '.' thousands separators, optionally ',' and decimals
IsLocaleNumber(t) ==
    t # Blank /\ IsDigit(t[1]) /\ IsDecimalLit(LocaleToDecimal(t))

\* ---- C1 ----
\* C1: combine_colaboradores_data returns one record per record of db_data,
\* in the same order, each with the codigo, nome, cpf and genero of the
\* record of db_data at the same position, whatever sheet_data holds.
C1_OneRecordPerAuthoritative ==
    (Done /\ route = "combine") =>
        /\ Len(combined_data) = Len(db_data)
        /\ \A i \in 1..Len(combined_data) :
              /\ combined_data[i].codigo = db_data[i].codigo
              /\ combined_data[i].nome = db_data[i].nome
              /\ combined_data[i].cpf = db_data[i].cpf
              /\ combined_data[i].genero = db_data[i].genero

\* two authoritative records joined with a sheet list that matches none
C1_Witness ==
    /\ Done /\ route = "combine"
    /\ Len(db_data) = 2 /\ Len(combined_data) = 2
    /\ db_data[1].codigo # db_data[2].codigo
    /\ sheet_data # <<>>
    /\ \A j \in 1..Len(sheet_data) : sheet_data[j].matricula = <<"0", "1">>

\* ---- C2 ----
\* C2: the combined record of an authoritative record a carries the
\* cargo_contabil, salario and admissao of the last record of sheet_data whose
\* matricula is the decimal string of a.codigo, and None in all three when
\* there is no such record.
C2_LastMatchWins ==
    (Done /\ route = "combine" /\ Len(combined_data) = Len(db_data)) =>
        \A i \in 1..Len(db_data) :
            LET matches == {j \in 1..Len(sheet_data) :
                               sheet_data[j].matricula = IntStr(db_data[i].codigo)}
            IN  IF matches = {}
                THEN /\ combined_data[i].cargo_contabil = None
                     /\ combined_data[i].salario = None
                     /\ combined_data[i].admissao = None
                ELSE LET last == sheet_data[Greatest(matches)]
                     IN  /\ combined_data[i].cargo_contabil = last.cargo_contabil
                         /\ combined_data[i].salario = last.salario
                         /\ combined_data[i].admissao = last.admissao

\* two sheet records with the same matricula and different contents, matched
C2_Witness ==
    /\ Done /\ route = "combine"
    /\ Len(sheet_data) = 2 /\ Len(db_data) >= 1
    /\ sheet_data[1].matricula = sheet_data[2].matricula
    /\ sheet_data[1].salario # sheet_data[2].salario
    /\ sheet_data[1].matricula = IntStr(db_data[1].codigo)
    /\ combined_data[1].salario = sheet_data[2].salario

\* ---- C3 ----
DbYieldsNothing == db_source.status # "ok" \/ db_source.rows = <<>>

SheetYieldsNothing ==
    \/ sheet_source.status # "ok"
    \/ sheet_source.rows = <<>>
    \/ sheet_source.cols # SheetCols
    \/ \A i \in 1..Len(Rows) : ~IsDecimalLit(Rows[i].codigo)

\* C3: GET /colaboradores/completo answers with a failure whenever either
\* source fails or yields no record, and a list it returns is non-empty and is
\* the join of two non-empty lists.
C3_NoPartialCombinedView ==
    (Done /\ route = "completo") =>
        /\ (DbYieldsNothing \/ SheetYieldsNothing) =>
              response.code \in {400, 500} /\ response.body = <<>>
        /\ ("fetch_sheet" \in {trace[i] : i \in 1..Len(trace)} /\ sheet_data = <<>>) =>
              response.code = 500 /\ response.body = <<>>
        /\ response.code = 200 =>
              /\ response.body # <<>>
              /\ db_data # <<>> /\ sheet_data # <<>>
              /\ response.body = combined_data
              /\ Len(response.body) = Len(db_data)
        /\ response.code \in {200, 400, 500}

\* the database answers, the sheet has rows but none is usable
C3_Witness ==
    /\ Done /\ route = "completo"
    /\ db_data # <<>> /\ sheet_source.status = "ok" /\ Rows # <<>>
    /\ sheet_data = <<>> /\ response.code = 500

\* ---- C4 ----
\* C4 as stated: on a source with zero usable records the two per-source
\* routes answer successfully with an empty sequence.
C4_Original ==
    /\ (Done /\ route = "banco" /\ db_source = DbOk(<<>>)) => response = Ok(<<>>)
    /\ (Done /\ route = "sheets" /\ sheet_url # <<>> /\ sheet_source.status = "ok"
          /\ sheet_data = <<>>) => response = Ok(<<>>)

\* C4: the two per-source routes answer with a failure (500) when their source
\* yields zero records, and answer 200 only with a non-empty list, which is
\* the list the service function returned.
C4_PerSourceRoutesFailOnEmpty ==
    (Done /\ route \in {"banco", "sheets"}) =>
        LET data == IF route = "banco" THEN db_data ELSE sheet_data
        IN  /\ response.code = 200 <=> data # <<>>
            /\ response.code = 200 => response.body = data
            /\ data = <<>> => response.code \in {400, 500} /\ response.body = <<>>
            /\ (route = "banco" /\ DbYieldsNothing) => response.code = 500
            /\ (route = "sheets" /\ sheet_url # <<>> /\ SheetYieldsNothing) =>
                  response.code = 500

\* the database answers the query with no row
C4_Witness ==
    /\ Done /\ route = "banco" /\ db_source = DbOk(<<>>)
    /\ response.code = 500

\* ---- C5 ----
\* C5: no returned record is made from a row whose 'Código' cell is blank or
\* is not a number, also when an earlier row has an identifier the forward
\* fill could copy; every returned record has a non-empty matricula.
C5_BlankIdNeverReturned ==
    SheetParsed =>
        LET src == SourceRows
        IN  /\ Len(sheet_data) <=
                  Cardinality({i \in 1..Len(Rows) : IsDecimalLit(Rows[i].codigo)})
            /\ \A k \in 1..Len(sheet_data) :
                  /\ sheet_data[k].matricula # <<>>
                  /\ Rows[src[k]].codigo # Blank
                  /\ IsDecimalLit(Rows[src[k]].codigo)

\* a row without identifier right after a row that has one
C5_Witness ==
    /\ SheetParsed /\ Len(Rows) = 2
    /\ Rows[1].codigo = <<"1">> /\ Rows[2].codigo = Blank
    /\ Rows[2].cargo # Blank
    /\ Len(sheet_data) = 1

\* ---- C6 ----
\* C6 as stated: the repaired frame has every row of the file, each blank
\* cell of the three columns replaced by the nearest preceding non-blank cell
\* among all earlier rows.
C6_Original ==
    SheetParsed =>
        /\ Len(df) = Len(Rows)
        /\ \A i \in 1..Len(df) : \A col \in SheetCols :
              df[i][col] = AsStored(col, NearestOfAll(col, i))

\* C6: the repair runs over the rows that have an identifier (the others are
\* removed first), in file order; in each of the three columns a blank cell
\* takes the nearest preceding non-blank cell among the earlier rows that
\* have an identifier, and stays absent when there is none.
C6_RepairOverRetainedRows ==
    SheetParsed =>
        /\ Len(df) = Cardinality({i \in 1..Len(Rows) : Rows[i].codigo # Blank})
        /\ \A k \in 1..Len(df) :
              /\ df[k].idx \in 1..Len(Rows)
              /\ Rows[df[k].idx].codigo # Blank
              /\ k > 1 => df[k - 1].idx < df[k].idx
              /\ \A col \in SheetCols :
                    df[k][col] = AsStored(col, NearestRetained(col, df[k].idx))

\* a blank role cell filled across a removed row that had another role
C6_Witness ==
    /\ SheetParsed /\ Len(Rows) = 3 /\ Len(df) = 2
    /\ Rows[1].cargo = <<"A">> /\ Rows[2].cargo = <<"B">> /\ Rows[3].cargo = Blank
    /\ Rows[2].codigo = Blank
    /\ df[2].cargo_contabil = StrV(<<"A">>)

\* ---- C7 ----
IdCoerces(v) ==
    v.kind \in {"int", "float"} \/ (v.kind = "str" /\ IsIntLit(v.s))

SalaryBlankOrParseable(v) ==
    v.kind = "nan" \/ IsDecimalLit(LocaleToDecimal(PyStr(v)))

CoercibleRow(r) == IdCoerces(r.matricula) /\ SalaryBlankOrParseable(r.salario)

\* C7: the returned list is exactly the repaired rows, in order, whose
\* identifier coerces to an integer and whose salary is blank or parseable; a
\* row that fails is left out and the others are still returned.
C7_NoRowAbortsBatch ==
    SheetParsed =>
        LET good == SelectSeq(df, CoercibleRow)
        IN  /\ Len(sheet_data) = Len(good)
            /\ \A k \in 1..Len(sheet_data) :
                  sheet_data[k].matricula = IntStr(PyInt(good[k].matricula).n)

\* ---- C8 ----
\* C8: a salary cell written in the sheet's locale is coerced to the number
\* its text denotes (remove '.', replace ',' by '.', parse).
C8_LocaleSalaryValue ==
    SheetParsed =>
        LET src == SourceRows
        IN  \A k \in 1..Len(sheet_data) :
                IsLocaleNumber(Rows[src[k]].salario) =>
                    sheet_data[k].salario =
                        DecimalValue(LocaleToDecimal(Rows[src[k]].salario))

\* ---- C9 ----
\* C9 as stated: every returned salary is absent or a decimal >= 0.
C9_Original ==
    SheetParsed =>
        \A k \in 1..Len(sheet_data) :
            \/ sheet_data[k].salario = None
            \/ sheet_data[k].salario.kind = "float" /\ sheet_data[k].salario.m >= 0

\* C9: every returned salary is absent, exactly when the repaired salary cell
\* is blank, or a decimal, which is >= 0 when the repaired cell carries no
\* minus sign and <= 0 when it carries one.
C9_SalarySignFollowsCell ==
    SheetParsed =>
        LET src == SourceRows
        IN  \A k \in 1..Len(sheet_data) :
                LET t == NearestRetained("salario", src[k])
                    v == sheet_data[k].salario
                IN  /\ v.kind \in {"none", "float"}
                    /\ v = None <=> t = Blank
                    /\ ~IsNeg(t) => v.m >= 0
                    /\ IsNeg(t) => v.m <= 0

\* a salary cell with a minus sign, returned as a negative salary; another
\* row without salary before it
C9_Witness ==
    /\ SheetParsed /\ Len(sheet_data) = 2
    /\ sheet_data[1].salario = None
    /\ SourceRows = <<1, 2>>
    /\ Rows[2].salario = Tm1c5
    /\ sheet_data[2].salario.m < 0

\* ---- C10 ----
\* C10: in one invocation of the combined view the steps run in the order
\* authoritative fetch, external fetch, join; the external fetch runs only
\* after the authoritative fetch returned a record, the join only after both
\* did, and nothing runs after a fetch that failed or returned nothing.
C10_StepOrder ==
    route = "completo" =>
        /\ trace \in {<<>>, <<"fetch_db">>, <<"fetch_db", "fetch_sheet">>,
                      <<"fetch_db", "fetch_sheet", "join">>}
        /\ Len(trace) >= 2 => db_data # <<>> /\ ~DbYieldsNothing
        /\ Len(trace) >= 3 => sheet_data # <<>> /\ ~SheetYieldsNothing
        /\ (Len(trace) = 1 /\ db_data = <<>>) => Done
        /\ (Len(trace) = 2 /\ sheet_data = <<>>) => Done
        /\ (Done /\ response.code # 200) => Len(trace) < 3

\* the external fetch returned nothing after a successful authoritative fetch
C10_Witness ==
    /\ route = "completo" /\ Done
    /\ trace = <<"fetch_db", "fetch_sheet">>
    /\ db_data # <<>> /\ sheet_data = <<>>

====
